---------------------------- MODULE Spec2Model ----------------------------
(***************************************************************************)
(* The card pool of src/src/components/LivingWall.tsx (the floating wall). *)
(*                                                                         *)
(* The state is the React state `cards`, the container ref, the periodic   *)
(* spotlight check (setInterval), the pending spotlight-expiry timeouts    *)
(* (setTimeout) and the position of the initialisation effect in its       *)
(* sampling loop.  Every callback of the component is one action.          *)
(*                                                                         *)
(* Math.random() is a nondeterministic choice.  Two kinds of value are     *)
(* only ever compared for equality by the code, so each draw is taken up   *)
(* to renaming: a card id is either an id that is in use or one id that    *)
(* is not; a catalog index is either an index that is in use or the least  *)
(* index that is not.  Nothing in the code makes a draw avoid the values   *)
(* in use, except the usedIndices loop of the initialisation.              *)
(*                                                                         *)
(* Spec runs the callbacks in any order.  SpecLive adds the fairness of the *)
(* event loop, SpecTimed runs every callback at its scheduled time (the     *)
(* clock moves in SpecTimed only), SpecCreate applies createCard to a range *)
(* of container sizes and draws, SpecConfig varies the size of the catalog. *)
(***************************************************************************)
EXTENDS Integers, Sequences, FiniteSets

\* ---------------------------------------------------------------- constants
MAX_CARDS == 5
CARD_WIDTH == 300
EST_CARD_HEIGHT == 420
BUFFER_X == 400
BUFFER_TOP == 450
BUFFER_BOTTOM == 100
\* ALUMNI_FILES.length
ALUMNI_FILES_LENGTH == 74
\* 20 + Math.random() * 20
DURATION_BASE == 20
DURATION_SPREAD == 20
\* The timings, in seconds: the period of the spotlight check, the time from a
\* tick to its expiry timeout, the length of the exit animation.
CHECK_PERIOD == 18
SPOTLIGHT_TIME == 12
EXIT_DURATION == 4

\* ------------------------------------------------------------------- bounds
\* Math.random() is k / RandGrid for k in 0 .. RandGrid-1.
RandGrid == 2
\* setTimeout handles pending at once.
MaxTimeouts == 2
\* Calls of handleRecycle in one run.
MaxRecycles == 1
\* Draws of a card id, in one run, that return an id already in use.
MaxCollisions == 1

VARIABLES
  catalogLen,     \* ALUMNI_FILES.length of the build
  phase,          \* "constructed" | "initializing" | "mounted" | "unmounted"
  containerRef,   \* containerRef.current: Null or the attached element's size
  cards,          \* the React state `cards`
  i,              \* the for-loop counter of the initialisation effect
  usedIndices,    \* the Set usedIndices of the initialisation effect
  initialCards,   \* the array initialCards of the initialisation effect
  interval,       \* TRUE while the setInterval handle is live
  timeouts,       \* the pending setTimeout handles, counted by how they began
  recycles,       \* calls of handleRecycle so far
  collisions,     \* id draws so far that returned an id already in use
  clock           \* the time and the times the scheduled callbacks are due

vars == <<catalogLen, phase, containerRef, cards, i, usedIndices, initialCards,
          interval, timeouts, recycles, collisions, clock>>

\* containerRef.current before the commit and after the unmount.
Null == [ attached |-> FALSE, clientWidth |-> 0, clientHeight |-> 0 ]

Max(a, b) == IF a >= b THEN a ELSE b

Min(S) == CHOOSE x \in S : \A y \in S : x <= y

\* The values Math.random() takes, as numerators over RandGrid.
Rand == 0 .. (RandGrid - 1)

\* Math.floor(Math.random() * n).
RandomInt(n) == { (k * n) \div RandGrid : k \in Rand }

\* The container sizes a run is mounted in.
Containers == { [attached |-> TRUE, clientWidth |-> 2000, clientHeight |-> 1200] }

\* ------------------------------------------------------------------- cards
\* createCard without the Math.max of safeMaxX and safeMaxY.
createCardUnclamped(image, containerW, containerH, rnd) ==
  LET durationX == DURATION_BASE * RandGrid + rnd.durX * DURATION_SPREAD
      durationY == DURATION_BASE * RandGrid + rnd.durY * DURATION_SPREAD
  IN  [ id        |-> rnd.id,
        image     |-> image,
        status    |-> "floating",
        minX      |-> BUFFER_X,
        maxX      |-> containerW - CARD_WIDTH - BUFFER_X,
        minY      |-> BUFFER_TOP,
        maxY      |-> containerH - EST_CARD_HEIGHT - BUFFER_BOTTOM,
        durationX |-> durationX,
        durationY |-> durationY,
        delayX    |-> rnd.delX * (2 * durationX),
        delayY    |-> rnd.delY * (2 * durationY) ]

\* createCard with durations of Math.random() * 20, the base of 20 left out.
createCardNoBase(image, containerW, containerH, rnd) ==
  LET durationX == rnd.durX * DURATION_SPREAD
      durationY == rnd.durY * DURATION_SPREAD
  IN  [ id        |-> rnd.id,
        image     |-> image,
        status    |-> "floating",
        minX      |-> BUFFER_X,
        maxX      |-> Max(BUFFER_X, containerW - CARD_WIDTH - BUFFER_X),
        minY      |-> BUFFER_TOP,
        maxY      |-> Max(BUFFER_TOP, containerH - EST_CARD_HEIGHT - BUFFER_BOTTOM),
        durationX |-> durationX,
        durationY |-> durationY,
        delayX    |-> rnd.delX * (2 * durationX),
        delayY    |-> rnd.delY * (2 * durationY) ]

\* rnd holds the five Math.random() draws of createCard in the order the code
\* makes them: durX, durY, delX, delY (numerators over RandGrid) and id.
\* Durations are kept in units of 1/RandGrid, delays in units of 1/RandGrid^2,
\* so that the arithmetic stays in the integers.
createCard(image, containerW, containerH, rnd) ==
  LET minX == BUFFER_X
      maxX == containerW - CARD_WIDTH - BUFFER_X
      minY == BUFFER_TOP
      maxY == containerH - EST_CARD_HEIGHT - BUFFER_BOTTOM
      safeMaxX == Max(minX, maxX)
      safeMaxY == Max(minY, maxY)
      durationX == DURATION_BASE * RandGrid + rnd.durX * DURATION_SPREAD
      durationY == DURATION_BASE * RandGrid + rnd.durY * DURATION_SPREAD
      delayX == rnd.delX * (2 * durationX)
      delayY == rnd.delY * (2 * durationY)
  IN  [ id        |-> rnd.id,
        image     |-> image,
        status    |-> "floating",
        minX      |-> minX,
        maxX      |-> safeMaxX,
        minY      |-> minY,
        maxY      |-> safeMaxY,
        durationX |-> durationX,
        durationY |-> durationY,
        delayX    |-> delayX,
        delayY    |-> delayY ]

\* ALUMNI_FILES[index] is `card_${index + 1}.png`: the image is named by its number.
ALUMNI_FILES(index) == index + 1

Ids(seq) == { seq[k].id : k \in DOMAIN seq }

Images(seq) == { seq[k].image : k \in DOMAIN seq }

\* Math.random().toString(36).substr(2, 9): any token, an id of `seq` included.
\* One token stands for all those not in `seq`.
IdDraws(seq) ==
  (IF collisions < MaxCollisions THEN Ids(seq) ELSE {})
    \cup { Min({ n \in 1 .. (Len(seq) + 1) : n \notin Ids(seq) }) }

\* Math.floor(Math.random() * ALUMNI_FILES.length) in the initialisation loop,
\* which ends only after MAX_CARDS different indices: any index of the catalog.
\* The least index not in `used` stands for all those not in `used`.
IndexDraws(used) ==
  LET all == 0 .. (catalogLen - 1)
      free == all \ used
  IN  (all \cap used) \cup (IF free = {} THEN {} ELSE { Min(free) })

\* The motion draws of the cards of the pool.
PoolMotion == { [durX |-> 0, durY |-> 0, delX |-> 0, delY |-> 0] }

\* The draws of a call that makes none.
NoDraws == [durX |-> 0, durY |-> 0, delX |-> 0, delY |-> 0, id |-> 0]

CardDraws(seq) ==
  { [durX |-> m.durX, durY |-> m.durY, delX |-> m.delX, delY |-> m.delY, id |-> d]
      : m \in PoolMotion, d \in IdDraws(seq) }

Collides(rnd, seq) == IF rnd.id \in Ids(seq) THEN 1 ELSE 0

\* --------------------------------------------------------------- timeouts
\* The code keeps a timeout as an anonymous handle.  The model counts the
\* pending ones under what their tick did: "own" is the timeout started by the
\* tick that made the latest promotion, "other" is any other one.
TimeoutKinds == { "own", "other" }

NoTimeouts == [ k \in TimeoutKinds |-> 0 ]

Pending(t) == t["own"] + t["other"]

\* The clock before anything is scheduled: the time, the times at which the
\* interval and the pending timeouts are due, and for each running exit
\* animation the id of its card and the time at which it ends.
NoSchedule == [ now |-> 0, ticks |-> {}, expiries |-> {}, completions |-> {} ]

\* --------------------------------------------------------------------- init
InitWith(lens) ==
  /\ catalogLen \in lens
  /\ phase = "constructed"
  /\ containerRef = Null
  /\ cards = << >>
  /\ i = 0
  /\ usedIndices = {}
  /\ initialCards = << >>
  /\ interval = FALSE
  /\ timeouts = NoTimeouts
  /\ recycles = 0
  /\ collisions = 0
  /\ clock = NoSchedule

Init == InitWith({ ALUMNI_FILES_LENGTH })

\* The commit of the first render attaches the ref; the initialisation effect
\* then runs up to its loop.  Neither early return is taken: the ref is
\* attached and `cards` is still the empty array of useState.
Mount ==
  /\ phase = "constructed"
  /\ \E c \in Containers : containerRef' = c
  /\ phase' = "initializing"
  /\ i' = 0
  /\ usedIndices' = {}
  /\ initialCards' = << >>
  /\ UNCHANGED <<catalogLen, cards, interval, timeouts, recycles, collisions, clock>>

\* The while test without its Set: every index passes as unused.
IsUsedNever(index, used) == FALSE

\* usedIndices.has(index), the test of the while loop.
IsUsed(index, used) == index \in used

\* One draw of an index inside the for loop: a used index is drawn again
\* (the while loop), an unused one is added and its card pushed.
InitDraw ==
  /\ phase = "initializing"
  /\ i < MAX_CARDS
  /\ \E index \in IndexDraws(usedIndices) :
       IF IsUsed(index, usedIndices)
       THEN UNCHANGED <<i, usedIndices, initialCards, collisions>>
       ELSE \E rnd \in CardDraws(initialCards) :
              /\ collisions' = collisions + Collides(rnd, initialCards)
              /\ usedIndices' = usedIndices \cup { index }
              /\ initialCards' = Append(initialCards,
                    createCard(ALUMNI_FILES(index), containerRef.clientWidth,
                               containerRef.clientHeight, rnd))
              /\ i' = i + 1
  /\ UNCHANGED <<catalogLen, phase, containerRef, cards, interval, timeouts, recycles,
                 clock>>

\* The loop is over: setCards(initialCards), and the second effect starts the
\* periodic check.
InitCommitStep ==
  /\ phase = "initializing"
  /\ i = MAX_CARDS
  /\ cards' = initialCards
  /\ interval' = TRUE
  /\ phase' = "mounted"
  /\ UNCHANGED <<catalogLen, containerRef, i, usedIndices, initialCards, timeouts,
                 recycles, collisions>>

InitCommit == InitCommitStep /\ UNCHANGED clock

\* ------------------------------------------------------- spotlight check
Floating(prev) == SelectSeq(prev, LAMBDA c : c.status = "floating")

HasSpotlight(prev) == \E k \in DOMAIN prev : prev[k].status = "spotlight"

Spotlighted(seq) == { k \in DOMAIN seq : seq[k].status = "spotlight" }

\* Math.floor(Math.random() * floating.length).
PickDraws(prev) == RandomInt(Len(Floating(prev)))

\* The spotlight check without its test for a card already spotlighted.
SpotlightCheckUnguarded(prev, pick) ==
  LET floating == Floating(prev) IN
  IF Len(floating) = 0 THEN prev
  ELSE LET target == floating[pick + 1] IN
       [ k \in DOMAIN prev |->
           IF prev[k].id = target.id
           THEN [ prev[k] EXCEPT !.status = "spotlight" ]
           ELSE prev[k] ]

\* The updater the interval callback hands to setCards.
SpotlightCheck(prev, pick) ==
  LET floating == Floating(prev) IN
  IF Len(floating) = 0 THEN prev
  ELSE IF HasSpotlight(prev) THEN prev
  ELSE LET target == floating[pick + 1] IN
       [ k \in DOMAIN prev |->
           IF prev[k].id = target.id
           THEN [ prev[k] EXCEPT !.status = "spotlight" ]
           ELSE prev[k] ]

\* setTimeout(..., 12000) of the interval callback: every tick starts one.
ScheduleExit(t, promoted) ==
  IF promoted
  THEN [ own |-> 1, other |-> t["other"] + t["own"] ]
  ELSE [ t EXCEPT !["other"] = @ + 1 ]

\* The interval callback: the spotlight check, then Schedule Exit.
IntervalTickStep ==
  /\ interval
  /\ Pending(timeouts) < MaxTimeouts
  /\ \E pick \in PickDraws(cards) :
       /\ cards' = SpotlightCheck(cards, pick)
       /\ timeouts' = ScheduleExit(timeouts, SpotlightCheck(cards, pick) # cards)
  /\ UNCHANGED <<catalogLen, phase, containerRef, i, usedIndices, initialCards,
                 interval, recycles, collisions>>

\* The interval fires whenever the event loop gets to it.
IntervalTick == IntervalTickStep /\ UNCHANGED clock

\* ------------------------------------------------------ spotlight expiry
\* The expiry updater without its status test: every card is moved to 'exiting'.
ExpireEveryCard(prev) ==
  [ k \in DOMAIN prev |-> [ prev[k] EXCEPT !.status = "exiting" ] ]

\* The updater the timeout callback hands to setCards.
ExpireSpotlight(prev) ==
  [ k \in DOMAIN prev |->
      IF prev[k].status = "spotlight"
      THEN [ prev[k] EXCEPT !.status = "exiting" ]
      ELSE prev[k] ]

\* A pending timeout fires.  Nothing cancels one, so it fires in any phase;
\* the updater is applied to the state cell whether or not the wall is mounted.
\* Callbacks run when the event loop gets to them, in no order the code fixes.
TimeoutFireStep ==
  /\ \E kind \in TimeoutKinds :
       /\ timeouts[kind] > 0
       /\ timeouts' = [ timeouts EXCEPT ![kind] = @ - 1 ]
  /\ cards' = ExpireSpotlight(cards)
  /\ UNCHANGED <<catalogLen, phase, containerRef, i, usedIndices, initialCards,
                 interval, recycles, collisions>>

TimeoutFire == TimeoutFireStep /\ UNCHANGED clock

\* ----------------------------------------------------------------- recycle
\* The updater handleRecycle hands to setCards.  ref is containerRef.current;
\* index and rnd are the draws of the branch that makes a card.
handleRecycle(prev, id, ref, index, rnd) ==
  LET remaining == SelectSeq(prev, LAMBDA c : c.id # id) IN
  IF ref.attached
  THEN Append(remaining,
              createCard(ALUMNI_FILES(index), ref.clientWidth, ref.clientHeight, rnd))
  ELSE remaining

\* onAnimationComplete without a call of onRecycle.
ShouldRecycleNever(card) == FALSE

\* The test onAnimationComplete makes before it calls onRecycle.
ShouldRecycle(card) == card.status = "exiting"

\* Math.floor(Math.random() * ALUMNI_FILES.length) of handleRecycle: the first
\* index of the catalog (its image is on the wall from the start) and the last.
RecycleIndexDraws == { 0, catalogLen - 1 }

\* onAnimationComplete of the FloatingCard of cards[k]: the animation executor
\* reports a finished transition, and an exiting card is recycled (for a card
\* of any other status the callback does nothing).  A report in flight at
\* teardown is delivered after it.
OnAnimationCompleteOf(k) ==
  /\ phase \in { "mounted", "unmounted" }
  /\ recycles < MaxRecycles
  /\ ShouldRecycle(cards[k])
  /\ IF containerRef.attached
     THEN \E index \in RecycleIndexDraws, rnd \in CardDraws(cards) :
            /\ cards' = handleRecycle(cards, cards[k].id, containerRef, index, rnd)
            /\ collisions' = collisions + Collides(rnd, cards)
     ELSE /\ cards' = handleRecycle(cards, cards[k].id, containerRef, 0, NoDraws)
          /\ UNCHANGED collisions
  /\ recycles' = recycles + 1
  /\ UNCHANGED <<catalogLen, phase, containerRef, i, usedIndices, initialCards,
                 interval, timeouts>>

OnAnimationComplete ==
  /\ \E k \in DOMAIN cards : OnAnimationCompleteOf(k)
  /\ UNCHANGED clock

\* ---------------------------------------------------------------- teardown
\* Unmount: the effect cleanup clears the interval, React detaches the ref.
UnmountStep ==
  /\ phase = "mounted"
  /\ phase' = "unmounted"
  /\ interval' = FALSE
  /\ containerRef' = Null
  /\ UNCHANGED <<catalogLen, cards, i, usedIndices, initialCards, timeouts, recycles,
                 collisions>>

Unmount == UnmountStep /\ UNCHANGED clock

Next ==
  \/ Mount
  \/ InitDraw
  \/ InitCommit
  \/ IntervalTick
  \/ TimeoutFire
  \/ OnAnimationComplete
  \/ Unmount

Spec == Init /\ [][Next]_vars

\* The builds whose catalog is smaller than the pool, beside the shipped one.
ConfigCatalogLens == (1 .. (MAX_CARDS - 1)) \cup { ALUMNI_FILES_LENGTH }

SpecConfig == InitWith(ConfigCatalogLens) /\ [][Next]_vars

\* ------------------------------------------------------------- fair runs
\* The ids of the cards that have been promoted and are still in the pool.
NonFloatingIds(seq) == { seq[k].id : k \in { n \in DOMAIN seq : seq[n].status # "floating" } }

\* The interval callback in a run that MaxRecycles ends: the last promotions
\* are those whose cards can still be recycled before the run is cut off.  A
\* tick that promotes nothing is not held back.
IntervalTickWithinRun ==
  /\ (~HasSpotlight(cards) /\ Len(Floating(cards)) > 0)
       => recycles + Cardinality(NonFloatingIds(cards)) < MaxRecycles
  /\ IntervalTick

NextLive ==
  \/ Mount
  \/ InitDraw
  \/ InitCommit
  \/ IntervalTickWithinRun
  \/ TimeoutFire
  \/ OnAnimationComplete
  \/ Unmount

\* The event loop runs every callback that is due: a pending timeout fires, a
\* finished exit animation is reported.  Nothing is asked of the interval,
\* which the teardown stops.
SpecLive ==
  /\ Init
  /\ [][NextLive]_vars
  /\ WF_vars(TimeoutFire)
  /\ WF_vars(OnAnimationComplete)

\* ------------------------------------------------------------ timed runs
\* Every callback runs at the time it is scheduled for, and time passes only
\* when no callback is due.
Exiting(seq) == { k \in DOMAIN seq : seq[k].status = "exiting" }

\* The exit animations that go on running in `seq`: a card that is no longer
\* 'exiting' has had its animation replaced.
Running(completions, seq) ==
  { rec \in completions : \E k \in Exiting(seq) : seq[k].id = rec.id }

\* setInterval(..., 18000): the first tick is one period after the commit.
TimedInitCommit ==
  /\ InitCommitStep
  /\ clock' = [ clock EXCEPT !.ticks = { clock.now + CHECK_PERIOD } ]

\* The interval callback at its time: the next tick is one period later and
\* the timeout it starts is due after SPOTLIGHT_TIME.
TimedIntervalTick ==
  /\ clock.now \in clock.ticks
  /\ IntervalTickStep
  /\ clock' = [ clock EXCEPT !.ticks = { clock.now + CHECK_PERIOD },
                             !.expiries = @ \cup { clock.now + SPOTLIGHT_TIME },
                             !.completions = Running(@, cards') ]

\* A timeout at its time: the cards it moves to 'exiting' start their exit
\* animation, which ends after EXIT_DURATION.
TimedTimeoutFire ==
  /\ clock.now \in clock.expiries
  /\ TimeoutFireStep
  /\ clock' = [ clock EXCEPT !.expiries = @ \ { clock.now },
                             !.completions = @ \cup
                               { [id |-> cards[k].id, at |-> clock.now + EXIT_DURATION]
                                   : k \in Spotlighted(cards) } ]

\* The end of an exit animation at its time.
TimedAnimationComplete ==
  \E rec \in clock.completions :
    /\ rec.at = clock.now
    /\ \E k \in DOMAIN cards : cards[k].id = rec.id /\ OnAnimationCompleteOf(k)
    /\ clock' = [ clock EXCEPT !.completions = Running(@ \ { rec }, cards') ]

\* clearInterval: no tick is due any more.
TimedUnmount ==
  /\ UnmountStep
  /\ clock' = [ clock EXCEPT !.ticks = {} ]

DueTimes == clock.ticks \cup clock.expiries \cup { rec.at : rec \in clock.completions }

\* Time passes to the next time at which a callback is due.
Advance ==
  /\ DueTimes # {}
  /\ clock.now \notin DueTimes
  /\ clock' = [ clock EXCEPT !.now = Min(DueTimes) ]
  /\ UNCHANGED <<catalogLen, phase, containerRef, cards, i, usedIndices, initialCards,
                 interval, timeouts, recycles, collisions>>

NextTimed ==
  \/ Mount
  \/ InitDraw
  \/ TimedInitCommit
  \/ TimedIntervalTick
  \/ TimedTimeoutFire
  \/ TimedAnimationComplete
  \/ TimedUnmount
  \/ Advance

SpecTimed == Init /\ [][NextTimed]_vars

\* ------------------------------------------------- createCard on its own
\* Container widths: none, the card's own width, the widths at which
\* W - CARD_WIDTH - BUFFER_X is one below, equal to and one above BUFFER_X,
\* and the width of Containers.
CreateWidths ==
  { 0, CARD_WIDTH, CARD_WIDTH + 2 * BUFFER_X - 1, CARD_WIDTH + 2 * BUFFER_X,
    CARD_WIDTH + 2 * BUFFER_X + 1, 2000 }

\* Container heights, chosen likewise.
CreateHeights ==
  { 0, EST_CARD_HEIGHT, EST_CARD_HEIGHT + BUFFER_BOTTOM + BUFFER_TOP - 1,
    EST_CARD_HEIGHT + BUFFER_BOTTOM + BUFFER_TOP,
    EST_CARD_HEIGHT + BUFFER_BOTTOM + BUFFER_TOP + 1, 1200 }

CreateContainers ==
  { [attached |-> TRUE, clientWidth |-> w, clientHeight |-> h]
      : w \in CreateWidths, h \in CreateHeights }

\* The four motion draws of createCard, each any value of Math.random().
MotionDraws == [ durX : Rand, durY : Rand, delX : Rand, delY : Rand ]

\* The initialisation effect has found the container, of any of the sizes
\* above, and is about to make its first card.
InitCreate ==
  /\ catalogLen = ALUMNI_FILES_LENGTH
  /\ phase = "initializing"
  /\ containerRef \in CreateContainers
  /\ cards = << >>
  /\ i = 0
  /\ usedIndices = {}
  /\ initialCards = << >>
  /\ interval = FALSE
  /\ timeouts = NoTimeouts
  /\ recycles = 0
  /\ collisions = 0
  /\ clock = NoSchedule

\* The first pass of the loop: one call of createCard, with every draw free.
CreateCard ==
  /\ phase = "initializing"
  /\ i = 0
  /\ \E index \in IndexDraws(usedIndices), m \in MotionDraws,
        d \in IdDraws(initialCards) :
       /\ usedIndices' = usedIndices \cup { index }
       /\ initialCards' = Append(initialCards,
             createCard(ALUMNI_FILES(index), containerRef.clientWidth,
                        containerRef.clientHeight,
                        [durX |-> m.durX, durY |-> m.durY, delX |-> m.delX,
                         delY |-> m.delY, id |-> d]))
  /\ i' = i + 1
  /\ UNCHANGED <<catalogLen, phase, containerRef, cards, interval, timeouts,
                 recycles, collisions, clock>>

SpecCreate == InitCreate /\ [][CreateCard]_vars

\* ------------------------------------------------------------------ claims
\* A step of the interval callback: the only one that starts a timeout.
TickFired == Pending(timeouts') = Pending(timeouts) + 1

\* A step of a timeout callback: the only one that ends a timeout.
TimeoutFired == Pending(timeouts') = Pending(timeouts) - 1

\* A step of handleRecycle.
Recycled == recycles' = recycles + 1

\* `seq` without the positions in S, in order.
Without(seq, S) ==
  LET keep[n \in 0 .. Len(seq)] ==
        IF n = 0 THEN << >>
        ELSE IF n \in S THEN keep[n - 1] ELSE Append(keep[n - 1], seq[n])
  IN  keep[Len(seq)]

\* C1: in every reachable state at most one card of the pool has status
\* 'spotlight'.
C1_AtMostOneSpotlight == Cardinality(Spotlighted(cards)) <= 1

\* C2: once the pool is initialised its size is exactly MAX_CARDS, in every
\* state that ticks, expiry timeouts and recycles reach, before and after the
\* teardown.
C2_PoolSizeIsMaxCards ==
  phase \in { "mounted", "unmounted" } => Len(cards) = MAX_CARDS

\* C3: a recycle removes one exiting card, whose id is then no id of the pool,
\* appends exactly one card, of status 'floating', and leaves the size of the
\* pool as it was.
C3_RecycleReplaces ==
  [][ Recycled =>
        \E k \in DOMAIN cards :
          /\ cards[k].status = "exiting"
          /\ cards[k].id \notin Ids(cards')
          /\ Len(cards') = Len(cards)
          /\ SubSeq(cards', 1, Len(cards') - 1) = Without(cards, { k })
          /\ cards'[Len(cards')].status = "floating" ]_vars

\* C4: a timeout is started only by a tick that promoted a card, and a card
\* is moved to 'exiting' only by the timeout started at its own promotion.
C4_TimerBelongsToPromotion ==
  [][ /\ (TickFired => cards' # cards)
      /\ ((TimeoutFired /\ cards' # cards) => timeouts'["own"] < timeouts["own"]) ]_vars

\* C5: after the teardown no timer is left: the periodic check and every
\* pending expiry timeout are cleared.
C5_TimersClearedOnTeardown ==
  phase = "unmounted" => (~interval /\ Pending(timeouts) = 0)

\* C6: when the pool is larger than the catalog, the initialisation is never
\* left searching for an unused index that does not exist.
C6_NoEndlessSearch ==
  (MAX_CARDS > catalogLen /\ phase = "initializing" /\ i < MAX_CARDS)
    => \E index \in 0 .. (catalogLen - 1) : ~IsUsed(index, usedIndices)

\* C7: the step that ends the initialisation leaves a pool of exactly
\* MAX_CARDS cards, all 'floating', with pairwise different images.
C7_InitialPool ==
  [][ (phase = "initializing" /\ phase' = "mounted") =>
        /\ Len(cards') = MAX_CARDS
        /\ \A k \in DOMAIN cards' : cards'[k].status = "floating"
        /\ \A k, m \in DOMAIN cards' : k # m => cards'[k].image # cards'[m].image ]_vars

\* C7 witness: the pool right after its initialisation.
C7_Witness ==
  /\ phase = "mounted"
  /\ Len(cards) = MAX_CARDS
  /\ Cardinality(Images(cards)) = MAX_CARDS
  /\ \A k \in DOMAIN cards : cards[k].status = "floating"
  /\ Pending(timeouts) = 0
  /\ recycles = 0

\* C8: a tick that finds no spotlighted card and a floating one changes one
\* card, a floating one, to 'spotlight' and nothing else in the pool.
C8_TickPromotesExactlyOne ==
  [][ (TickFired /\ ~HasSpotlight(cards) /\ Len(Floating(cards)) > 0) =>
        \E k \in DOMAIN cards :
          /\ cards[k].status = "floating"
          /\ cards' = [ cards EXCEPT ![k].status = "spotlight" ] ]_vars

\* C9: a tick that finds a spotlighted card, or no floating card, leaves the
\* pool as it was.
C9_TickNoOp ==
  [][ (TickFired /\ (HasSpotlight(cards) \/ Len(Floating(cards)) = 0)) =>
        cards' = cards ]_vars

\* C9 witness: a card is spotlighted, its own timeout is pending, and so is
\* the timeout of a later tick, which found that card spotlighted.
C9_Witness ==
  /\ HasSpotlight(cards)
  /\ timeouts["own"] = 1
  /\ timeouts["other"] >= 1

\* The steps a status may take.
StatusStep(from, to) ==
  \/ to = from
  \/ from = "floating" /\ to = "spotlight"
  \/ from = "spotlight" /\ to = "exiting"

\* C10: in every step each card either stays in the pool, its status kept or
\* moved one step along floating -> spotlight -> exiting, or leaves it while
\* 'exiting'; the cards that come in are appended.
C10_StatusOrder ==
  [][ \E S \in SUBSET DOMAIN cards :
        LET kept == Without(cards, S) IN
        /\ \A k \in S : cards[k].status = "exiting"
        /\ Len(kept) <= Len(cards')
        /\ \A n \in DOMAIN kept :
             /\ cards'[n].id = kept[n].id
             /\ StatusStep(kept[n].status, cards'[n].status) ]_vars

\* C11: the ids of the cards of the pool are pairwise different in every
\* reachable state, recycles included.
C11_IdsPairwiseDistinct ==
  \A k, m \in DOMAIN cards : k # m => cards[k].id # cards[m].id

C13_MotionRanges ==
  \A k \in DOMAIN initialCards :
    LET c == initialCards[k] IN
    /\ 20 * RandGrid <= c.durationX /\ c.durationX <= 40 * RandGrid
    /\ 20 * RandGrid <= c.durationY /\ c.durationY <= 40 * RandGrid
    /\ 0 <= c.delayX /\ c.delayX <= 2 * c.durationX * RandGrid
    /\ 0 <= c.delayY /\ c.delayY <= 2 * c.durationY * RandGrid

\* C13 witness: a card whose two durations differ and whose delays are both
\* positive, each drawn against the duration of its own axis.
C13_Witness ==
  /\ Len(initialCards) = 1
  /\ initialCards[1].durationX < initialCards[1].durationY
  /\ initialCards[1].delayX > 0
  /\ initialCards[1].delayY > initialCards[1].delayX

\* The id tokens a pool of at most MAX_CARDS cards draws from.
IdTokens == 1 .. (MAX_CARDS + 1)

\* C14: when the periodic check, the expiry timeouts and the animation
\* callback are run fairly, a card that is 'spotlight' is later 'exiting', and
\* a card that has left 'floating' is later out of the pool: no card stays
\* 'spotlight' or 'exiting' for ever.  Cards are followed by their ids.
C14_PromotedCardsLeave ==
  \A d \in IdTokens :
    /\ (\E k \in DOMAIN cards : cards[k].id = d /\ cards[k].status = "spotlight")
         ~> (\E k \in DOMAIN cards : cards[k].id = d /\ cards[k].status = "exiting")
    /\ (d \in NonFloatingIds(cards)) ~> (d \notin NonFloatingIds(cards))

\* C14 witness: a promoted card has been through 'exiting' and a recycle has
\* taken it out; every card of the pool is 'floating' again.
C14_Witness ==
  /\ recycles > 0
  /\ Len(cards) > 0
  /\ NonFloatingIds(cards) = {}

\* C15: when every callback runs at its scheduled time (a tick every 18 s, the
\* expiry 12 s after its tick, the end of the exit animation 4 s after the
\* expiry), each tick finds every card of the pool 'floating' and promotes
\* exactly one card, and no two cards are ever non-floating together.
C15_TickFindsAllFloating ==
  [][ /\ TickFired =>
          /\ \A k \in DOMAIN cards : cards[k].status = "floating"
          /\ \E k \in DOMAIN cards : cards' = [ cards EXCEPT ![k].status = "spotlight" ]
      /\ Cardinality(Spotlighted(cards') \cup Exiting(cards')) <= 1 ]_vars

\* C16: a timeout firing keeps the size and the order of the pool, moves each
\* 'spotlight' card to 'exiting' with its other fields kept, and leaves every
\* other card as it was; with no card spotlighted the pool is unchanged.
C16_ExpiryFrame ==
  [][ TimeoutFired =>
        /\ Len(cards') = Len(cards)
        /\ \A k \in DOMAIN cards :
             IF cards[k].status = "spotlight"
             THEN cards'[k] = [ cards[k] EXCEPT !.status = "exiting" ]
             ELSE cards'[k] = cards[k]
        /\ (~HasSpotlight(cards) => cards' = cards) ]_vars

\* C16 witness: a timeout has moved a card to 'exiting' beside floating cards,
\* and another timeout is still pending.
C16_Witness ==
  /\ \E k \in DOMAIN cards : cards[k].status = "exiting"
  /\ \E k \in DOMAIN cards : cards[k].status = "floating"
  /\ ~HasSpotlight(cards)
  /\ Pending(timeouts) > 0

=============================================================================
